---- MODULE Spec2Model ----
(***************************************************************************)
(* Comment engine of the Django backend: the hierarchical comments of      *)
(* backend/apps/comments (CAPTCHA-gated creation, stored likes_count and   *)
(* replies_count, moderation) and the flat comments of backend/comments    *)
(* (like toggle, soft delete, cache rate limit).                           *)
(*                                                                         *)
(* Every request is a process: its first action is the arrival together    *)
(* with the reads made before the first write, every further action is one *)
(* database write together with the reads that follow it.  A sequential    *)
(* specification lets a request arrive only when no other is in flight.    *)
(***************************************************************************)
EXTENDS Integers, FiniteSets, Sequences, TLC

\* ---------------------------------------------------------------- bounds
MaxComments == 11
MaxDepthComments == 5
MaxThread == 3
MaxTokens == 12
MaxOpenTokens == 1
MaxTime == 21
MaxLongTime == 72
MaxLikes == 3
MaxLikedComments == 2
MaxCaptchaTokens == 2
MaxCaptchaComments == 2
MaxFlatComments == 1
MaxUniqueComments == 2
MaxRateComments == 6
MaxSweepComments == 3
MaxShoutComments == 2
MaxSoftComments == 2
MaxModComments == 2
MaxChallengeTokens == 2

\* ------------------------------------------------------ program constants
CaptchaTtl == 10
MaxDepth == 3
SpamThreshold == 80
SweepWindow == 60
CleanupAge == 60
RateLimit == 5
RateWindow == 60
PolicyLimit == 10
ChallengeMaxLength == 10
SolutionMaxLength == 10

\* ------------------------------------------------------------ input sets
Procs == {1, 2}
SeqProc == CHOOSE p \in Procs : \A q \in Procs : p <= q
IPs == {1, 2}
SameIP == {1}
NULL == -1
ShortSteps == {10, 11}
LongSteps == {11, 61}
OneOperand == {1}
TwoOperands == {1, 10}
\* random.randint(1, 10)
Operands == 1..10
Solutions == {2, 11}

\* A text is represented by what the spam scorer reads of it: the number of
\* distinct spam keywords it contains, the number of "http" occurrences, the
\* number of uppercase characters and its length.
Benign == [kw |-> 0, http |-> 0, upper |-> 1, len |-> 30]
Spammy == [kw |-> 4, http |-> 3, upper |-> 0, len |-> 60]
Texts == {Benign, Spammy}
\* Four keywords and two "http": a score of exactly 80.
Borderline == [kw |-> 4, http |-> 2, upper |-> 0, len |-> 60]
SweepTexts == {Spammy, Borderline}
\* Texts made of "viagra", three "http" and uppercase letters: the keyword in
\* lowercase (18 characters that are not uppercase) or in uppercase (12).
ShoutLengths == {18, 30, 2000, 2001}
ShoutTexts ==
    {[kw |-> 1, http |-> 3, upper |-> n - low, len |-> n] :
        n \in ShoutLengths, low \in {12, 18}}
\* Steps of time that end exactly on, and just past, the sweep's window.
SweepSteps == {60, 61}
\* One step that takes every stored comment out of the sweep's window.
SoftSteps == {61}

\* backend/apps/comments: comments, likes, captchas; backend/comments: bcomments,
\* blikes, cache.  tokenLog, last and batch record what happened, for the claims.
VARIABLES comments, nextId, likes, nextLikeId, captchas, tokenLog, now, req, last,
          bcomments, blikes, bNextLikeId, cache, batch,
          events, dailyStats, run, xhtml, xhtmlValid

appVars == <<comments, nextId, likes, nextLikeId, captchas, tokenLog>>

flatVars == <<bcomments, blikes, bNextLikeId, cache, batch>>

\* backend/apps/analytics: events, dailyStats and the runs of
\* process_analytics_events; xhtml is a text handed to Comment.is_valid_xhtml
\* and xhtmlValid what it returned, if it was called.
sideVars == <<events, dailyStats, run, xhtml, xhtmlValid>>

vars == <<comments, nextId, likes, nextLikeId, captchas, tokenLog, now, req, last,
          bcomments, blikes, bNextLikeId, cache, batch,
          events, dailyStats, run, xhtml, xhtmlValid>>

\* ------------------------------------------------------------- processes
BlankRow == [parent |-> 0, text |-> Benign, is_active |-> TRUE,
             is_moderated |-> FALSE, moderated_by |-> NULL, moderated_at |-> NULL,
             likes_count |-> 0, replies_count |-> 0, created_at |-> 0]

\* A request in flight: its operation, position, arguments and local values
\* (new, n, row, like), and what held when it arrived (tokUsed .. cnt0).
IdleReq == [op |-> "idle", pc |-> "idle", ep |-> "none", c |-> 0, ip |-> 0,
            tok |-> 0, text |-> Benign, mod |-> NULL, new |-> 0, n |-> 0,
            row |-> BlankRow, liked |-> FALSE,
            tokUsed |-> FALSE, tokExpired |-> FALSE, solRight |-> FALSE,
            had |-> FALSE, cnt |-> 0, depth |-> NULL, chain |-> FALSE, had0 |-> FALSE,
            cnt0 |-> 0, parentActive |-> TRUE, todo |-> <<>>]

NoLast == [op |-> "none", ok |-> FALSE, ep |-> "none", c |-> 0, ip |-> 0,
           tok |-> 0, new |-> 0, liked |-> FALSE, count |-> 0,
           tokUsed |-> FALSE, tokExpired |-> FALSE, solRight |-> FALSE,
           had |-> FALSE, cnt |-> 0, depth |-> NULL, chain |-> FALSE,
           had0 |-> FALSE, cnt0 |-> 0, parentActive |-> TRUE, result |-> <<>>]

AllIdle == \A p \in Procs : req[p].pc = "idle"

\* The summary of the request that completed last; an arriving request clears
\* it.
Summary(r, ok) == [op |-> r.op, ok |-> ok, ep |-> r.ep, c |-> r.c, ip |-> r.ip,
                   tok |-> r.tok, new |-> r.new, liked |-> r.liked, count |-> r.n,
                   tokUsed |-> r.tokUsed, tokExpired |-> r.tokExpired,
                   solRight |-> r.solRight,
                   had |-> r.had, cnt |-> r.cnt, depth |-> r.depth,
                   chain |-> r.chain, had0 |-> r.had0, cnt0 |-> r.cnt0,
                   parentActive |-> r.parentActive, result |-> <<>>]

Finish(p, r, ok) ==
    /\ req' = [req EXCEPT ![p] = IdleReq]
    /\ last' = Summary(r, ok)

\* ---------------------------------------------------------- Comment model
Ids == DOMAIN comments

NewComment_mutant(parent, text) ==
    [parent |-> parent, text |-> text, is_active |-> TRUE,
     is_moderated |-> FALSE, moderated_by |-> NULL, moderated_at |-> NULL,
     likes_count |-> 0, replies_count |-> 1, created_at |-> now]

NewComment(parent, text) ==
    [parent |-> parent, text |-> text, is_active |-> TRUE,
     is_moderated |-> FALSE, moderated_by |-> NULL, moderated_at |-> NULL,
     likes_count |-> 0, replies_count |-> 0, created_at |-> now]

RECURSIVE get_depth(_, _)
get_depth(cs, c) ==
    IF cs[c].parent = 0 \/ cs[c].parent \notin DOMAIN cs THEN 0
    ELSE 1 + get_depth(cs, cs[c].parent)

can_reply_mutant(cs, c) == get_depth(cs, c) < MaxDepth + 1

can_reply(cs, c) == get_depth(cs, c) < MaxDepth

Replies(cs, c) == {d \in DOMAIN cs : cs[d].parent = c}

ActiveReplies(cs, c) == {d \in Replies(cs, c) : cs[d].is_active}

\* ---------------------------------------------------------- CaptchaToken
Tokens == DOMAIN captchas

is_expired_mutant(t) == now > captchas[t].created_at + CaptchaTtl + 1

is_expired(t) == now > captchas[t].created_at + CaptchaTtl

is_used(t) == captchas[t].used_at # NULL

OpenTokens == {t \in Tokens : ~is_used(t) /\ ~is_expired(t)}

\* CaptchaSerializer.create: a fresh token with the sum of two operands.
\* The challenge text f"{num1} + {num2} = ?".
Challenge(num1, num2) == ToString(num1) \o " + " \o ToString(num2) \o " = ?"

\* A value longer than a CharField's max_length is stored as it is by a
\* database that does not enforce the length and makes the INSERT fail on one
\* that does (PostgreSQL in the production settings).
GenerateCaptcha(num1, num2) ==
    /\ AllIdle
    /\ Cardinality(DOMAIN tokenLog) < MaxTokens
    /\ \/ LET t == Cardinality(DOMAIN tokenLog) + 1 IN
            /\ captchas' = captchas @@
                  (t :> [challenge |-> Challenge(num1, num2),
                         solution |-> num1 + num2, created_at |-> now,
                         used_at |-> NULL])
            /\ tokenLog' = tokenLog @@
                  (t :> [issued |-> now, solution |-> num1 + num2,
                         writes |-> 0, created |-> 0])
            /\ last' = [NoLast EXCEPT !.op = "captcha", !.ok = TRUE]
       \/ /\ Len(Challenge(num1, num2)) > ChallengeMaxLength
          /\ last' = [NoLast EXCEPT !.op = "captcha", !.ok = FALSE]
          /\ UNCHANGED <<captchas, tokenLog>>
    /\ UNCHANGED <<comments, nextId, likes, nextLikeId, now, sideVars, req, flatVars>>

\* cleanup_expired_captchas: deletes the tokens created more than an hour ago.
CleanupExpiredCaptchas ==
    /\ AllIdle
    /\ \E t \in Tokens : captchas[t].created_at < now - CleanupAge
    /\ captchas' = [t \in {u \in Tokens : ~(captchas[u].created_at < now - CleanupAge)}
                      |-> captchas[t]]
    /\ last' = [NoLast EXCEPT !.op = "cleanup", !.ok = TRUE]
    /\ UNCHANGED <<comments, nextId, likes, nextLikeId, tokenLog, now, sideVars, req, flatVars>>

\* Time passes between requests.
Tick(d, max) ==
    /\ AllIdle
    /\ now + d <= max
    /\ now' = now + d
    /\ last' = [NoLast EXCEPT !.op = "tick", !.ok = TRUE]
    /\ UNCHANGED <<comments, nextId, likes, nextLikeId, captchas, tokenLog, req, sideVars, flatVars>>

\* ------------------------------------------------ CommentSerializer (apps)
\* validate_captcha_token: the token exists, is not expired and is not used.
validate_captcha_token_mutant(t) == t \in Tokens /\ ~is_expired(t)

validate_captcha_token(t) == t \in Tokens /\ ~is_expired(t) /\ ~is_used(t)

\* validate: the solution matches and the parent, when given, can be replied to.
validate_mutant(t, sol, parent) ==
    /\ t \in Tokens
    /\ (parent # 0 => can_reply(comments, parent))

validate(t, sol, parent) ==
    /\ t \in Tokens
    /\ captchas[t].solution = sol
    /\ (parent # 0 => can_reply(comments, parent))

\* CommentReplyCreateView.post: the parent must exist, be active and accept
\* replies before the serializer runs.
ReplyViewAccepts(parent) ==
    /\ parent \in Ids
    /\ comments[parent].is_active
    /\ can_reply(comments, parent)

\* The creation paths: the generic create endpoint, the reply endpoint and the
\* GraphQL CreateComment mutation, which runs the serializer as the generic
\* endpoint does.
Endpoints == {"create", "reply", "graphql"}

\* Arrival of a creation request with its validation (is_valid).
CreateValidate(p, ep, parent, t, sol, text) ==
    /\ req[p].pc = "idle"
    /\ nextId <= MaxComments
    /\ ep \in Endpoints
    /\ ep = "reply" => parent # 0
    /\ parent # 0 => parent \in Ids
    /\ t \in DOMAIN tokenLog
    /\ LET r == [IdleReq EXCEPT !.op = "create", !.ep = ep, !.c = parent,
                                !.tok = t, !.text = text,
                                !.tokUsed = tokenLog[t].created > 0,
                                !.tokExpired = now > tokenLog[t].issued + CaptchaTtl,
                                !.solRight = (tokenLog[t].solution = sol),
                                !.chain = (/\ last.op = "create" /\ last.tok = t
                                           /\ ~last.ok /\ ~last.solRight
                                           /\ ~last.tokUsed /\ ~last.tokExpired),
                                !.cnt = IF parent = 0 THEN 0
                                        ELSE comments[parent].replies_count,
                                !.depth = IF parent = 0 THEN NULL
                                          ELSE get_depth(comments, parent)]
           accepted == /\ (ep = "reply" => ReplyViewAccepts(parent))
                       /\ validate_captcha_token(t)
                       /\ validate(t, sol, parent)
       IN IF accepted
          THEN /\ req' = [req EXCEPT ![p] = [r EXCEPT !.pc = "insert"]]
               /\ last' = NoLast
          ELSE Finish(p, r, FALSE)
    /\ UNCHANGED <<comments, nextId, likes, nextLikeId, captchas, tokenLog, now, sideVars, flatVars>>

\* Comment.objects.create and the count made by comment_post_save.
CreateInsert(p) ==
    /\ req[p].pc = "insert"
    /\ LET r == req[p]
           id == nextId
           cs == comments @@ (id :> NewComment(r.c, r.text))
       IN /\ comments' = cs
          /\ nextId' = nextId + 1
          /\ tokenLog' = [tokenLog EXCEPT ![r.tok].created = @ + 1]
          /\ req' = [req EXCEPT ![p] =
                [r EXCEPT !.new = id,
                          !.parentActive = (r.c = 0 \/ (r.c \in Ids /\
                                                        comments[r.c].is_active)),
                          !.n = IF r.c = 0 THEN 0
                                ELSE Cardinality(ActiveReplies(cs, r.c)),
                          !.pc = IF r.c = 0 THEN "mark_used" ELSE "sig_save"]]
    /\ UNCHANGED <<likes, nextLikeId, captchas, now, sideVars, last, flatVars>>

\* comment_post_save: parent.save(update_fields=['replies_count']).
CreateSigSave(p) ==
    /\ req[p].pc = "sig_save"
    /\ LET r == req[p] IN
         /\ comments' = IF r.c \in Ids
                        THEN [comments EXCEPT ![r.c].replies_count = r.n]
                        ELSE comments
         /\ req' = [req EXCEPT ![p].pc = "mark_used"]
    /\ UNCHANGED <<nextId, likes, nextLikeId, captchas, tokenLog, now, sideVars, last, flatVars>>

\* create: captcha.used_at = now; captcha.save(); then the count of all the
\* parent's replies.
CreateMarkUsed(p) ==
    /\ req[p].pc = "mark_used"
    /\ LET r == req[p] IN
         /\ IF r.tok \in Tokens
            THEN /\ captchas' = [captchas EXCEPT ![r.tok].used_at = now]
                 /\ tokenLog' = [tokenLog EXCEPT ![r.tok].writes = @ + 1]
            ELSE UNCHANGED <<captchas, tokenLog>>
         /\ IF r.c = 0
            THEN Finish(p, r, TRUE)
            ELSE /\ req' = [req EXCEPT ![p] =
                       [r EXCEPT !.n = Cardinality(Replies(comments, r.c)),
                                 !.pc = "save"]]
                 /\ UNCHANGED last
    /\ UNCHANGED <<comments, nextId, likes, nextLikeId, now, sideVars, flatVars>>

\* create: comment.parent.save(update_fields=['replies_count']).
CreateSave(p) ==
    /\ req[p].pc = "save"
    /\ req[p].op = "create"
    /\ LET r == req[p] IN
         /\ comments' = IF r.c \in Ids
                        THEN [comments EXCEPT ![r.c].replies_count = r.n]
                        ELSE comments
         /\ Finish(p, r, TRUE)
    /\ UNCHANGED <<nextId, likes, nextLikeId, captchas, tokenLog, now, sideVars, flatVars>>

\* create in which a write that follows Comment.objects.create raises (the
\* signal's parent.save(), captcha.save() or comment.parent.save()): create has
\* no transaction and no handler for it, the request ends with an error and
\* what was written before stays.
CreateFails(p) ==
    /\ req[p].pc \in {"sig_save", "mark_used", "save"}
    /\ req[p].op = "create"
    /\ Finish(p, req[p], FALSE)
    /\ UNCHANGED <<appVars, now, sideVars, flatVars>>

CreateSteps(p) ==
    \/ CreateInsert(p)
    \/ CreateSigSave(p)
    \/ CreateMarkUsed(p)
    \/ CreateSave(p)

\* ---------------------------------------------------------------- threads
\* get_comment_thread: while root_comment.parent: root_comment = its parent.
RECURSIVE ThreadRoot(_, _)
ThreadRoot(cs, c) ==
    IF cs[c].parent \in DOMAIN cs THEN ThreadRoot(cs, cs[c].parent) ELSE c

\* The ancestor of c that is k levels above it, 0 when there is none.
RECURSIVE Ancestor(_, _, _)
Ancestor(cs, c, k) ==
    IF c \notin DOMAIN cs THEN 0
    ELSE IF k = 0 THEN c ELSE Ancestor(cs, cs[c].parent, k - 1)

\* The comments matched by Q(id=root) | Q(parent=root) | Q(parent__parent=root)
\* | Q(parent__parent__parent=root).
ThreadScope(cs, root) ==
    {d \in DOMAIN cs : \E k \in 0..3 : Ancestor(cs, d, k) = root}

\* services.py binds the name models by "from analytics import models"; that
\* module defines no Q, so that evaluating models.Q raises AttributeError.
ModelsHasQ == FALSE

\* CommentService.get_comment_thread: whether it returns, and the comments of
\* the queryset it returns.
get_comment_thread(cs, c) ==
    IF c \notin DOMAIN cs \/ ~cs[c].is_active
    THEN [ok |-> TRUE, ids |-> {}]
    ELSE IF ModelsHasQ
         THEN [ok |-> TRUE,
               ids |-> {d \in ThreadScope(cs, ThreadRoot(cs, c)) : cs[d].is_active}]
         ELSE [ok |-> FALSE, ids |-> {}]

\* order_by('created_at'): ascending, comments of equal created_at in any order.
OrderedByCreatedAt(cs, seq) ==
    \A i, j \in 1..Len(seq) : i < j => cs[seq[i]].created_at <= cs[seq[j]].created_at

\* The orders in which the database may return the comments of ids.
Orderings(cs, ids) ==
    {seq \in [1..Cardinality(ids) -> ids] :
       /\ \A i, j \in 1..Cardinality(ids) : i # j => seq[i] # seq[j]
       /\ OrderedByCreatedAt(cs, seq)}

\* A thread request (resolve_comment_thread) for comment c.
ThreadGet(c) ==
    /\ AllIdle
    /\ c \in 1..(nextId - 1)
    /\ LET t == get_comment_thread(comments, c) IN
         \E seq \in Orderings(comments, t.ids) :
            last' = [NoLast EXCEPT !.op = "thread", !.ok = t.ok, !.c = c,
                                   !.result = seq]
    /\ UNCHANGED <<comments, nextId, likes, nextLikeId, captchas, tokenLog, now, sideVars, req,
                   flatVars>>

\* ------------------------------------------------------------ moderation
\* CommentService.mark_comment_as_spam: Comment.objects.get.
HideGet(p, c, mod) ==
    /\ req[p].pc = "idle"
    /\ c \in 1..(nextId - 1)
    /\ LET r == [IdleReq EXCEPT !.op = "hide", !.c = c, !.mod = mod] IN
         IF c \in Ids
         THEN /\ req' = [req EXCEPT ![p] =
                    [r EXCEPT !.row = comments[c], !.pc = "hide_save",
                              !.had = comments[c].is_active,
                              !.cnt = IF comments[c].parent \in Ids
                                      THEN comments[comments[c].parent].replies_count
                                      ELSE 0]]
              /\ last' = NoLast
         ELSE Finish(p, r, FALSE)
    /\ UNCHANGED <<comments, nextId, likes, nextLikeId, captchas, tokenLog, now, sideVars, flatVars>>

\* The row written by mark_comment_as_spam.
HiddenRow_mutant(row, mod) ==
    [row EXCEPT !.is_active = ~row.is_active, !.is_moderated = TRUE,
                !.moderated_by = mod, !.moderated_at = now]

HiddenRow(row, mod) ==
    [row EXCEPT !.is_active = FALSE, !.is_moderated = TRUE,
                !.moderated_by = mod, !.moderated_at = now]

\* mark_comment_as_spam: comment.save() writes every field of the row it read;
\* comment_post_save does nothing when created is false.
HideSave_mutant(p) ==
    /\ req[p].pc = "hide_save"
    /\ LET r == req[p] IN
         /\ comments' = [d \in Ids \ {r.c} |-> comments[d]]
         /\ Finish(p, r, TRUE)
    /\ UNCHANGED <<nextId, likes, nextLikeId, captchas, tokenLog, now, sideVars, flatVars>>

HideSave(p) ==
    /\ req[p].pc = "hide_save"
    /\ LET r == req[p] IN
         /\ comments' = [d \in Ids \cup {r.c} |->
                           IF d = r.c THEN HiddenRow(r.row, r.mod) ELSE comments[d]]
         /\ Finish(p, r, TRUE)
    /\ UNCHANGED <<nextId, likes, nextLikeId, captchas, tokenLog, now, sideVars, flatVars>>

\* SpamDetectionService.get_spam_score, as a fraction: the result is
\* SpamScoreNum(t) / SpamScoreDen(t).
SpamScoreDen(t) == IF t.len > 1 THEN t.len ELSE 1

SpamScoreNum_mutant(t) ==
    LET d == SpamScoreDen(t)
        raw == (t.kw * 15 + t.http * 10) * d + t.upper * 30
               + (IF t.len < 10 THEN 10 * d ELSE 0)
    IN IF raw < 100 * d THEN raw ELSE 100 * d

SpamScoreNum(t) ==
    LET d == SpamScoreDen(t)
        raw == (t.kw * 15 + t.http * 10) * d + t.upper * 30
               + (IF t.len < 10 \/ t.len > 2000 THEN 10 * d ELSE 0)
    IN IF raw < 100 * d THEN raw ELSE 100 * d

\* spam_score > k
ScoreAbove_mutant(t, k) == SpamScoreNum(t) >= k * SpamScoreDen(t)

ScoreAbove(t, k) == SpamScoreNum(t) > k * SpamScoreDen(t)

\* The comments detect_and_moderate_spam looks at.
SweepScope ==
    {c \in Ids : /\ comments[c].is_active
                 /\ ~comments[c].is_moderated
                 /\ comments[c].created_at >= now - SweepWindow}

\* detect_and_moderate_spam: hides every comment of its scope whose score is
\* above the threshold; moderated_by is left alone.
DetectAndModerateSpam ==
    /\ AllIdle
    /\ comments' = [c \in Ids |->
          IF c \in SweepScope /\ ScoreAbove(comments[c].text, SpamThreshold)
          THEN [comments[c] EXCEPT !.is_active = FALSE, !.is_moderated = TRUE,
                                   !.moderated_at = now]
          ELSE comments[c]]
    /\ last' = [NoLast EXCEPT !.op = "sweep", !.ok = TRUE]
    /\ UNCHANGED <<nextId, likes, nextLikeId, captchas, tokenLog, now, sideVars, req, flatVars>>

\* The row detect_and_moderate_spam saves for a comment it hides.
SweptRow(row) ==
    [row EXCEPT !.is_active = FALSE, !.is_moderated = TRUE, !.moderated_at = now]

\* The orders in which the sweep may meet the comments of its scope:
\* Comment.Meta.ordering is -created_at.
SweepOrders ==
    {seq \in [1..Cardinality(SweepScope) -> SweepScope] :
       \A i, j \in 1..Cardinality(SweepScope) :
          i < j => /\ seq[i] # seq[j]
                   /\ comments[seq[i]].created_at >= comments[seq[j]].created_at}

\* detect_and_moderate_spam in which scoring or saving the k-th comment raises:
\* the comments met before it are handled and saved, the exception leaves the
\* loop, is logged and raised again.
DetectAndModerateSpamFails ==
    /\ AllIdle
    /\ \E seq \in SweepOrders : \E k \in 1..Len(seq) :
         LET done == {seq[i] : i \in 1..(k - 1)} IN
           /\ comments' = [c \in Ids |->
                 IF c \in done /\ ScoreAbove(comments[c].text, SpamThreshold)
                 THEN SweptRow(comments[c])
                 ELSE comments[c]]
           /\ last' = [NoLast EXCEPT !.op = "sweep", !.ok = FALSE, !.c = seq[k]]
    /\ UNCHANGED <<nextId, likes, nextLikeId, captchas, tokenLog, now, sideVars, req, flatVars>>

\* A moderator approves one comment on the admin change form, whose Moderation
\* fields are editable. (The list action mark_as_approved evaluates
\* timezone.now() on datetime.timezone, which admin.py imports, and raises
\* before its UPDATE.)
ApproveInAdmin(c, mod) ==
    /\ c \in Ids
    /\ comments' = [comments EXCEPT ![c] =
          [@ EXCEPT !.is_active = TRUE, !.is_moderated = TRUE,
                    !.moderated_by = mod, !.moderated_at = now]]
    /\ UNCHANGED <<nextId, likes, nextLikeId, captchas, tokenLog, now, sideVars, req, last,
                   flatVars>>

\* detect_and_moderate_spam as it runs beside other requests: the loop reads
\* the rows of its scope once; todo holds, in the order of the loop, the rows
\* whose score is above the threshold.
SweepStart(p) ==
    /\ req[p].pc = "idle"
    /\ \E seq \in SweepOrders :
         LET high(c) == ScoreAbove(comments[c].text, SpamThreshold)
             ids == SelectSeq(seq, high)
             r == [IdleReq EXCEPT
                     !.op = "sweep",
                     !.todo = [i \in 1..Len(ids) |->
                                 [id |-> ids[i], row |-> comments[ids[i]]]]]
         IN IF ids = <<>>
            THEN Finish(p, r, TRUE)
            ELSE /\ req' = [req EXCEPT ![p] = [r EXCEPT !.pc = "sweep_save"]]
                 /\ last' = NoLast
    /\ UNCHANGED <<appVars, now, sideVars, flatVars>>

\* One comment.save() of the loop: every field of the row that was read.
SweepSave(p) ==
    /\ req[p].pc = "sweep_save"
    /\ LET r == req[p]
           item == Head(r.todo)
       IN /\ comments' = [d \in Ids \cup {item.id} |->
                            IF d = item.id THEN SweptRow(item.row) ELSE comments[d]]
          /\ IF Len(r.todo) = 1
             THEN Finish(p, r, TRUE)
             ELSE /\ req' = [req EXCEPT ![p].todo = Tail(r.todo)]
                  /\ UNCHANGED last
    /\ UNCHANGED <<nextId, likes, nextLikeId, captchas, tokenLog, now, sideVars, flatVars>>

\* Deletion of a comment row that has no replies (its likes go with it, Comment
\* and CommentLike are on_delete=CASCADE), then comment_post_delete: the
\* parent's replies_count is the count of its active replies.
DeleteComment(c) ==
    /\ AllIdle
    /\ c \in Ids
    /\ Replies(comments, c) = {}
    /\ LET parent == comments[c].parent
           cs == [d \in Ids \ {c} |-> comments[d]]
       IN comments' = IF parent \in DOMAIN cs
                      THEN [cs EXCEPT ![parent].replies_count =
                                 Cardinality(ActiveReplies(cs, parent))]
                      ELSE cs
    /\ likes' = {l \in likes : l.comment # c}
    /\ last' = [NoLast EXCEPT !.op = "delete", !.ok = TRUE, !.c = c]
    /\ UNCHANGED <<nextId, nextLikeId, captchas, tokenLog, now, sideVars, req, flatVars>>

\* ------------------------------------------------- CommentLike (apps)
LikeRows_mutant(ls, c) == ls

\* comment.likes: the like rows of a comment.
LikeRows(ls, c) == {l \in ls : l.comment = c}

HasLike(ls, c, ip) == \E l \in ls : l.comment = c /\ l.ip = ip

\* Meta.unique_together = ('comment', 'ip_address'): the insert of a second row
\* for the pair fails.
UniqueTogether_mutant(ls, c, ip) == TRUE

UniqueTogether(ls, c, ip) == ~HasLike(ls, c, ip)

\* CommentLikeSerializer.create: "already liked" check.
ExistingLike(ls, c, ip) == HasLike(ls, c, ip)

\* CommentLikeCreateView.post and the existing-like check of
\* CommentLikeSerializer.create.
LikeCheck(p, c, ip) ==
    /\ req[p].pc = "idle"
    /\ nextLikeId <= MaxLikes
    /\ c \in 1..(nextId - 1)
    /\ LET r == [IdleReq EXCEPT !.op = "like", !.c = c, !.ip = ip,
                                !.had = HasLike(likes, c, ip),
                                !.cnt = IF c \in Ids THEN comments[c].likes_count
                                        ELSE 0]
       IN IF c \in Ids /\ comments[c].is_active /\ ~ExistingLike(likes, c, ip)
          THEN /\ req' = [req EXCEPT ![p] = [r EXCEPT !.pc = "like_insert"]]
               /\ last' = NoLast
          ELSE Finish(p, r, FALSE)
    /\ UNCHANGED <<comments, nextId, likes, nextLikeId, captchas, tokenLog, now, sideVars, flatVars>>

\* CommentLike.objects.create, and the count made by comment_like_post_save.
LikeInsert(p) ==
    /\ req[p].pc = "like_insert"
    /\ LET r == req[p] IN
         IF r.c \in Ids /\ UniqueTogether(likes, r.c, r.ip)
         THEN LET ls == likes \cup {[id |-> nextLikeId, comment |-> r.c, ip |-> r.ip]}
              IN /\ likes' = ls
                 /\ nextLikeId' = nextLikeId + 1
                 /\ req' = [req EXCEPT ![p] =
                       [r EXCEPT !.new = nextLikeId,
                                 !.n = Cardinality(LikeRows(ls, r.c)),
                                 !.pc = "like_sig_save"]]
                 /\ UNCHANGED last
         ELSE /\ Finish(p, r, FALSE)
              /\ UNCHANGED <<likes, nextLikeId>>
    /\ UNCHANGED <<comments, nextId, captchas, tokenLog, now, sideVars, flatVars>>

\* comment_like_post_save: comment.save(update_fields=['likes_count']), then the
\* count made by CommentLikeSerializer.create.
LikeSigSave(p) ==
    /\ req[p].pc = "like_sig_save"
    /\ LET r == req[p] IN
         /\ comments' = IF r.c \in Ids
                        THEN [comments EXCEPT ![r.c].likes_count = r.n]
                        ELSE comments
         /\ req' = [req EXCEPT ![p] =
               [r EXCEPT !.n = Cardinality(LikeRows(likes, r.c)),
                         !.pc = "like_save"]]
    /\ UNCHANGED <<nextId, likes, nextLikeId, captchas, tokenLog, now, sideVars, last, flatVars>>

\* CommentLikeSerializer.create: comment.save(update_fields=['likes_count']).
LikeSave(p) ==
    /\ req[p].pc = "like_save"
    /\ LET r == req[p] IN
         /\ comments' = IF r.c \in Ids
                        THEN [comments EXCEPT ![r.c].likes_count = r.n]
                        ELSE comments
         /\ Finish(p, r, TRUE)
    /\ UNCHANGED <<nextId, likes, nextLikeId, captchas, tokenLog, now, sideVars, flatVars>>

\* Deletion of a like row, and the count made by comment_like_post_delete.
LikeDelete(p, l) ==
    /\ req[p].pc = "idle"
    /\ l \in likes
    /\ LET ls == likes \ {l} IN
         /\ likes' = ls
         /\ req' = [req EXCEPT ![p] =
               [IdleReq EXCEPT !.op = "unlike", !.c = l.comment, !.ip = l.ip,
                               !.n = Cardinality(LikeRows(ls, l.comment)),
                               !.pc = "unlike_save"]]
    /\ last' = NoLast
    /\ UNCHANGED <<comments, nextId, nextLikeId, captchas, tokenLog, now, sideVars, flatVars>>

\* comment_like_post_delete: comment.save(update_fields=['likes_count']).
LikeDeleteSave(p) ==
    /\ req[p].pc = "unlike_save"
    /\ LET r == req[p] IN
         /\ comments' = IF r.c \in Ids
                        THEN [comments EXCEPT ![r.c].likes_count = r.n]
                        ELSE comments
         /\ Finish(p, r, TRUE)
    /\ UNCHANGED <<nextId, likes, nextLikeId, captchas, tokenLog, now, sideVars, flatVars>>

LikeSteps(p) ==
    \/ LikeInsert(p)
    \/ LikeSigSave(p)
    \/ LikeSave(p)

\* ------------------------------------------------ flat comments (comments/)
\* The overlapping toggle requests since the last moment no request was in
\* flight.
NoBatch == [n |-> 0, c |-> 0, ip |-> 0, base |-> FALSE, same |-> TRUE]

BIds == DOMAIN bcomments

\* cache.get(key, 0): the stored count unless the entry has expired.
CacheGet(ip) ==
    IF ip \in DOMAIN cache /\ now < cache[ip].expires THEN cache[ip].count ELSE 0

\* CommentListCreateView.perform_create: the rate-limit check.
BCreateCheck(p, ip) ==
    /\ req[p].pc = "idle"
    /\ LET r == [IdleReq EXCEPT !.op = "bcreate", !.ip = ip, !.n = CacheGet(ip),
                                !.cnt = CacheGet(ip)]
       IN IF CacheGet(ip) >= RateLimit
          THEN Finish(p, r, FALSE)
          ELSE /\ req' = [req EXCEPT ![p] = [r EXCEPT !.pc = "b_insert"]]
               /\ last' = NoLast
    /\ batch' = NoBatch
    /\ UNCHANGED <<appVars, now, sideVars, bcomments, blikes, bNextLikeId, cache>>

\* perform_create: serializer.save().
BCreateInsert(p) ==
    /\ req[p].pc = "b_insert"
    /\ LET id == Cardinality(BIds) + 1 IN
         /\ bcomments' = bcomments @@ (id :> [is_active |-> TRUE, ip |-> req[p].ip,
                                         created_at |-> now])
         /\ req' = [req EXCEPT ![p].new = id, ![p].pc = "b_cache"]
    /\ UNCHANGED <<appVars, now, sideVars, last, blikes, bNextLikeId, cache, batch>>

\* perform_create: cache.set(cache_key, current_count + 1, 3600).
BCreateCache(p) ==
    /\ req[p].pc = "b_cache"
    /\ LET r == req[p]
           entry == [count |-> r.n + 1, expires |-> now + RateWindow]
       IN /\ cache' = [k \in DOMAIN cache \cup {r.ip} |->
                          IF k = r.ip THEN entry ELSE cache[k]]
          /\ Finish(p, r, TRUE)
    /\ UNCHANGED <<appVars, now, sideVars, bcomments, blikes, bNextLikeId, batch>>

\* CommentDetailView.perform_destroy: get_object over the active comments.
BDestroyGet(p, c) ==
    /\ req[p].pc = "idle"
    /\ c \in BIds
    /\ LET r == [IdleReq EXCEPT !.op = "destroy", !.c = c] IN
         IF bcomments[c].is_active
         THEN /\ req' = [req EXCEPT ![p] = [r EXCEPT !.pc = "b_destroy"]]
              /\ last' = NoLast
         ELSE Finish(p, r, FALSE)
    /\ batch' = NoBatch
    /\ UNCHANGED <<appVars, now, sideVars, bcomments, blikes, bNextLikeId, cache>>

\* perform_destroy: instance.is_active = False; instance.save().
BDestroySave(p) ==
    /\ req[p].pc = "b_destroy"
    /\ bcomments' = [bcomments EXCEPT ![req[p].c].is_active = FALSE]
    /\ Finish(p, req[p], TRUE)
    /\ UNCHANGED <<appVars, now, sideVars, blikes, bNextLikeId, cache, batch>>

BHasLike(ls, c, ip) == \E l \in ls : l.comment = c /\ l.ip = ip

\* The row get_or_create finds for the pair.
BGetLike(ls, c, ip) == CHOOSE l \in ls : l.comment = c /\ l.ip = ip

\* Whether the pair has an active like.
BLiked(ls, c, ip) == \E l \in ls : l.comment = c /\ l.ip = ip /\ l.is_active

\* Comment.likes_count (comments/models.py): the count of the active likes.
BLikesCount(ls, c) == Cardinality({l \in ls : l.comment = c /\ l.is_active})

\* CommentLike.Meta.unique_together (comments/models.py).
BUniqueTogether(ls, c, ip) == ~BHasLike(ls, c, ip)

\* toggle_comment_like: like.is_active = not like.is_active.
FlipLike_mutant(active) == TRUE

FlipLike(active) == ~active

BatchAfter(c, ip) ==
    IF AllIdle \/ batch.n = 0
    THEN [n |-> 1, c |-> c, ip |-> ip, base |-> BLiked(blikes, c, ip), same |-> TRUE]
    ELSE [batch EXCEPT !.n = IF @ < 3 THEN @ + 1 ELSE 3,
                       !.same = @ /\ batch.c = c /\ batch.ip = ip]

\* toggle_comment_like: get_object_or_404 and the get of get_or_create.
ToggleGet(p, c, ip) ==
    /\ req[p].pc = "idle"
    /\ c \in BIds
    /\ BHasLike(blikes, c, ip) \/ bNextLikeId <= MaxLikes
    /\ LET r == [IdleReq EXCEPT
                   !.op = "toggle", !.c = c, !.ip = ip,
                   !.had = BLiked(blikes, c, ip),
                   !.cnt = BLikesCount(blikes, c),
                   !.chain = (last.op = "toggle" /\ last.ok /\ last.c = c
                              /\ last.ip = ip),
                   !.had0 = last.had, !.cnt0 = last.cnt]
       IN IF ~bcomments[c].is_active
          THEN /\ Finish(p, [r EXCEPT !.chain = FALSE, !.had0 = FALSE, !.cnt0 = 0],
                         FALSE)
               /\ UNCHANGED batch
          ELSE /\ req' = [req EXCEPT ![p] =
                     IF BHasLike(blikes, c, ip)
                     THEN [r EXCEPT !.new = BGetLike(blikes, c, ip).id,
                                    !.liked = BGetLike(blikes, c, ip).is_active,
                                    !.pc = "toggle_save"]
                     ELSE [r EXCEPT !.pc = "toggle_create"]]
               /\ last' = NoLast
               /\ batch' = BatchAfter(c, ip)
    /\ UNCHANGED <<appVars, now, sideVars, bcomments, blikes, bNextLikeId, cache>>

\* get_or_create: the insert; when the pair has a row by now the insert fails
\* and the row is read instead.
ToggleCreate(p) ==
    /\ req[p].pc = "toggle_create"
    /\ LET r == req[p] IN
         IF BUniqueTogether(blikes, r.c, r.ip)
         THEN LET ls == blikes \cup {[id |-> bNextLikeId, comment |-> r.c,
                                      ip |-> r.ip, is_active |-> TRUE]}
              IN /\ blikes' = ls
                 /\ bNextLikeId' = bNextLikeId + 1
                 /\ Finish(p, [r EXCEPT !.new = bNextLikeId, !.liked = TRUE,
                                        !.n = BLikesCount(ls, r.c)], TRUE)
         ELSE /\ req' = [req EXCEPT ![p] =
                    [r EXCEPT !.new = BGetLike(blikes, r.c, r.ip).id,
                              !.liked = BGetLike(blikes, r.c, r.ip).is_active,
                              !.pc = "toggle_save"]]
              /\ UNCHANGED <<blikes, bNextLikeId, last>>
    /\ UNCHANGED <<appVars, now, sideVars, bcomments, cache, batch>>

\* toggle_comment_like: the flip of the row that was read, like.save(), and the
\* response with the live count.
ToggleSave(p) ==
    /\ req[p].pc = "toggle_save"
    /\ LET r == req[p]
           flipped == FlipLike(r.liked)
           ls == {IF l.id = r.new THEN [l EXCEPT !.is_active = flipped] ELSE l
                    : l \in blikes}
       IN /\ blikes' = ls
          /\ Finish(p, [r EXCEPT !.liked = flipped, !.n = BLikesCount(ls, r.c)], TRUE)
    /\ UNCHANGED <<appVars, now, sideVars, bcomments, bNextLikeId, cache, batch>>

FlatSteps(p) ==
    \/ BCreateInsert(p)
    \/ BCreateCache(p)
    \/ ToggleCreate(p)
    \/ ToggleSave(p)

\* ------------------------------------------- analytics (apps/analytics)
MaxEvents == 2

MaxCounted == 2

BatchLimit == 1000

MinutesPerDay == 1440

Workers == {1, 2}

DaySteps == {MinutesPerDay}

EventTypes == {"comment_created", "comment_liked", "file_uploaded", "page_view"}

FileTypes == {"image", "text", "none"}

EventIds == DOMAIN events

\* event.created_at.date()
DayOf(t) == t \div MinutesPerDay

ZeroStats == [comments_created |-> 0, comments_liked |-> 0, files_uploaded |-> 0,
              images_uploaded |-> 0, text_files_uploaded |-> 0]

IdleRun == [pc |-> "idle", todo |-> <<>>, stats |-> ZeroStats, count |-> 0]

AllRunsIdle == \A w \in Workers : run[w].pc = "idle"

\* AnalyticsService.track_event: Event.objects.create, processed False.
TrackEvent(type, ft) ==
    /\ Cardinality(EventIds) < MaxEvents
    /\ (type # "file_uploaded") => ft = "none"
    /\ events' = events @@ (Cardinality(EventIds) + 1 :>
                    [event_type |-> type, file_type |-> ft, created_at |-> now,
                     processed |-> FALSE])
    /\ UNCHANGED <<appVars, now, req, last, flatVars, dailyStats, run, xhtml, xhtmlValid>>

\* The orders in which Event.objects.filter(processed=False) may be iterated:
\* Event.Meta.ordering is -created_at.
EventOrders ==
    LET S == {e \in EventIds : ~events[e].processed} IN
    {seq \in [1..Cardinality(S) -> S] :
       \A i, j \in 1..Cardinality(S) :
          i < j => /\ seq[i] # seq[j]
                   /\ events[seq[i]].created_at >= events[seq[j]].created_at}

\* The position of the loop body at an event: the three counted types load
\* the day's statistics, every other type is only marked.
FirstPc(row) ==
    IF row.event_type \in {"comment_created", "comment_liked", "file_uploaded"}
    THEN "get_stats" ELSE "mark"

\* The loop goes on to the next event of the batch, or the task returns.
NextEvent(w, counted) ==
    LET r == run[w]
        rest == Tail(r.todo)
    IN run' = [run EXCEPT ![w] =
                 IF rest = <<>> THEN IdleRun
                 ELSE [r EXCEPT !.todo = rest, !.pc = FirstPc(rest[1].row),
                                !.count = r.count + counted]]

\* process_analytics_events starts: the unprocessed events, at most BatchLimit
\* of them, are read once, each with the row it had then.
ProcessStart(w) ==
    /\ run[w].pc = "idle"
    /\ \E seq \in EventOrders :
         LET n == IF Len(seq) < BatchLimit THEN Len(seq) ELSE BatchLimit
             todo == [i \in 1..n |-> [id |-> seq[i], row |-> events[seq[i]]]]
         IN /\ n > 0
            /\ run' = [run EXCEPT ![w] = [IdleRun EXCEPT !.pc = FirstPc(todo[1].row),
                                                        !.todo = todo]]
    /\ UNCHANGED <<appVars, now, req, last, flatVars, events, dailyStats, xhtml, xhtmlValid>>

\* AnalyticsService.get_daily_stats: get_or_create of the day's row.
ProcessGetStats(w) ==
    /\ run[w].pc = "get_stats"
    /\ LET day == DayOf(run[w].todo[1].row.created_at)
           ds == IF day \in DOMAIN dailyStats THEN dailyStats
                 ELSE dailyStats @@ (day :> ZeroStats)
       IN /\ dailyStats' = ds
          /\ run' = [run EXCEPT ![w].stats = ds[day], ![w].pc = "save_stats"]
    /\ UNCHANGED <<appVars, now, req, last, flatVars, events, xhtml, xhtmlValid>>

\* The counters of the loaded row after the increments for an event.
Incremented(stats, row) ==
    IF row.event_type = "comment_created"
    THEN [stats EXCEPT !.comments_created = @ + 1]
    ELSE IF row.event_type = "comment_liked"
    THEN [stats EXCEPT !.comments_liked = @ + 1]
    ELSE [stats EXCEPT !.files_uploaded = @ + 1,
                       !.images_uploaded = IF row.file_type = "image" THEN @ + 1 ELSE @,
                       !.text_files_uploaded = IF row.file_type = "text" THEN @ + 1 ELSE @]

\* stats.save(): the loaded row, incremented, is written whole.
ProcessSaveStats(w) ==
    /\ run[w].pc = "save_stats"
    /\ LET row == run[w].todo[1].row
           day == DayOf(row.created_at)
       IN dailyStats' = [dailyStats EXCEPT ![day] = Incremented(run[w].stats, row)]
    /\ run' = [run EXCEPT ![w].pc = "mark"]
    /\ UNCHANGED <<appVars, now, req, last, flatVars, events, xhtml, xhtmlValid>>

\* event.processed = True; event.save(); processed_count += 1.
ProcessMark(w) ==
    /\ run[w].pc = "mark"
    /\ LET item == run[w].todo[1]
       IN events' = [events EXCEPT ![item.id] = [item.row EXCEPT !.processed = TRUE]]
    /\ NextEvent(w, 1)
    /\ UNCHANGED <<appVars, now, req, last, flatVars, dailyStats, xhtml, xhtmlValid>>

\* A statement of the loop body raises: the exception is logged and the loop
\* goes on with the next event.
ProcessFails(w) ==
    /\ run[w].pc \in {"get_stats", "save_stats", "mark"}
    /\ NextEvent(w, 0)
    /\ UNCHANGED <<appVars, now, req, last, flatVars, events, dailyStats, xhtml, xhtmlValid>>

\* ------------------------------------------ Comment.is_valid_xhtml (apps)
MaxTags == 3

TagNames == {"i", "img"}

TagKinds == {"open", "close", "self"}

Tags == [name : TagNames, kind : TagKinds]

\* The texts handed to the validator: sequences of tags.
TagTexts == UNION {[1..n -> Tags] : n \in 0..MaxTags}

\* A tag as written in the text.
Render(t) ==
    IF t.kind = "close" THEN "</" \o t.name \o ">"
    ELSE IF t.kind = "self" THEN "<" \o t.name \o "/>"
    ELSE "<" \o t.name \o ">"

StartsWith(s, pre) == Len(pre) <= Len(s) /\ SubSeq(s, 1, Len(pre)) = pre

EndsWith(s, suf) ==
    Len(suf) <= Len(s) /\ SubSeq(s, Len(s) - Len(suf) + 1, Len(s)) = suf

\* text[text.find('<' + tag_name) : text.find('>', ...) + 1].endswith('/>'):
\* the first place of the whole text where '<' + tag_name begins, up to the
\* next '>'.
FirstIsSelfClosing(text, tag_name) ==
    LET hits == {j \in 1..Len(text) : StartsWith(Render(text[j]), "<" \o tag_name)}
        first == CHOOSE j \in hits : \A k \in hits : j <= k
    IN hits # {} /\ EndsWith(Render(text[first]), "/>")

RECURSIVE ScanTags(_, _, _)
\* The loop over the tags found, from the i-th on, with the stack of open tags.
ScanTags(text, i, tag_stack) ==
    IF i > Len(text) THEN Len(tag_stack) = 0
    ELSE LET t == text[i] IN
         IF t.kind = "close"
         THEN IF tag_stack = <<>> \/ tag_stack[Len(tag_stack)] # t.name
              THEN FALSE
              ELSE ScanTags(text, i + 1, SubSeq(tag_stack, 1, Len(tag_stack) - 1))
         ELSE IF FirstIsSelfClosing(text, t.name)
              THEN ScanTags(text, i + 1, tag_stack)
              ELSE ScanTags(text, i + 1, Append(tag_stack, t.name))

is_valid_xhtml(text) == ScanTags(text, 1, <<>>)

\* Comment.is_valid_xhtml is called on the text.
IsValidXhtml ==
    /\ xhtmlValid = <<>>
    /\ xhtmlValid' = <<is_valid_xhtml(xhtml)>>
    /\ UNCHANGED <<appVars, now, req, last, flatVars, events, dailyStats, run, xhtml>>

InitStores ==
    /\ comments = <<>>
    /\ nextId = 1
    /\ likes = {}
    /\ nextLikeId = 1
    /\ captchas = <<>>
    /\ tokenLog = <<>>
    /\ now = 0
    /\ req = [p \in Procs |-> IdleReq]
    /\ last = NoLast
    /\ bcomments = <<>>
    /\ blikes = {}
    /\ bNextLikeId = 1
    /\ cache = <<>>
    /\ batch = NoBatch
    /\ events = <<>>
    /\ dailyStats = <<>>
    /\ run = [w \in Workers |-> IdleRun]

Init ==
    /\ InitStores
    /\ xhtml = <<>>
    /\ xhtmlValid = <<>>

\* Any text of the bounded set is handed to the validator.
InitXhtml ==
    /\ InitStores
    /\ xhtml \in TagTexts
    /\ xhtmlValid = <<>>

\* ------------------------------------------------------- specifications
\* Arrival of a creation request on either endpoint, with any parent, a token
\* of toks and a right or wrong solution.
CreateArrives(p, texts, toks) ==
    \E ep \in {"create", "reply"}, parent \in {0} \cup Ids,
       t \in toks, sol \in Solutions, text \in texts :
         CreateValidate(p, ep, parent, t, sol, text)

\* Creation of comments and replies, one request at a time.
NextDepth ==
    \/ \E a \in OneOperand, b \in OneOperand : OpenTokens = {} /\ GenerateCaptcha(a, b)
    \/ AllIdle /\ nextId <= MaxDepthComments /\ CreateArrives(SeqProc, {Benign}, OpenTokens)
    \/ \E p \in Procs : CreateSteps(p)

SpecDepth == Init /\ [][NextDepth]_vars

\* Replies, moderation and deletion, one request at a time.
NextThread ==
    \/ \E a \in OneOperand, b \in OneOperand : OpenTokens = {} /\ GenerateCaptcha(a, b)
    \/ AllIdle /\ nextId <= MaxThread /\ CreateArrives(SeqProc, Texts, OpenTokens)
    \/ \E p \in Procs : CreateSteps(p)
    \/ \E c \in 1..(nextId - 1) : AllIdle /\ HideGet(SeqProc, c, 1)
    \/ \E p \in Procs : HideSave(p)
    \/ DetectAndModerateSpam
    \/ \E c \in Ids : DeleteComment(c)

SpecThread == Init /\ [][NextThread]_vars

\* Likes and their deletion, one request at a time.
NextLikes ==
    \/ \E a \in OneOperand, b \in OneOperand : OpenTokens = {} /\ GenerateCaptcha(a, b)
    \/ AllIdle /\ nextId <= MaxLikedComments /\ CreateArrives(SeqProc, {Benign}, OpenTokens)
    \/ \E p \in Procs : CreateSteps(p)
    \/ \E c \in 1..(nextId - 1), ip \in IPs : AllIdle /\ LikeCheck(SeqProc, c, ip)
    \/ \E l \in likes : AllIdle /\ LikeDelete(SeqProc, l)
    \/ \E p \in Procs : LikeSteps(p)
    \/ \E p \in Procs : LikeDeleteSave(p)
    \/ \E c \in 1..(nextId - 1) : AllIdle /\ HideGet(SeqProc, c, NULL)
    \/ \E p \in Procs : HideSave(p)

SpecLikes == Init /\ [][NextLikes]_vars

\* Like requests that overlap in time.
NextLikesConc ==
    \/ \E a \in OneOperand, b \in OneOperand : OpenTokens = {} /\ GenerateCaptcha(a, b)
    \/ AllIdle /\ nextId <= MaxLikedComments /\ CreateArrives(SeqProc, {Benign}, OpenTokens)
    \/ \E p \in Procs : CreateSteps(p)
    \/ \E p \in Procs, c \in 1..(nextId - 1), ip \in IPs : LikeCheck(p, c, ip)
    \/ \E p \in Procs : LikeSteps(p)

SpecLikesConc == Init /\ [][NextLikesConc]_vars

\* CAPTCHA tokens over time, one request at a time.
NextCaptcha ==
    \/ \E a \in TwoOperands, b \in OneOperand :
          /\ Cardinality(DOMAIN tokenLog) < MaxCaptchaTokens
          /\ Cardinality(OpenTokens) < MaxOpenTokens
          /\ GenerateCaptcha(a, b)
    \/ \E d \in ShortSteps : Tick(d, MaxTime)
    \/ AllIdle /\ nextId <= MaxCaptchaComments /\ CreateArrives(SeqProc, {Benign}, DOMAIN tokenLog)
    \/ \E p \in Procs : CreateSteps(p)

SpecCaptcha == Init /\ [][NextCaptcha]_vars

\* CAPTCHA tokens over hours, with the periodic cleanup of old tokens.
NextCaptchaLong ==
    \/ \E a \in OneOperand, b \in OneOperand :
          /\ Cardinality(DOMAIN tokenLog) < MaxCaptchaTokens
          /\ Cardinality(OpenTokens) < MaxOpenTokens
          /\ GenerateCaptcha(a, b)
    \/ \E d \in LongSteps : Tick(d, MaxLongTime)
    \/ CleanupExpiredCaptchas
    \/ AllIdle /\ nextId <= MaxCaptchaComments /\ CreateArrives(SeqProc, {Benign}, DOMAIN tokenLog)
    \/ \E p \in Procs : CreateSteps(p)

SpecCaptchaLong == Init /\ [][NextCaptchaLong]_vars

\* Creation requests that overlap in time.
NextCaptchaConc ==
    \/ \E a \in TwoOperands, b \in OneOperand :
          /\ Cardinality(DOMAIN tokenLog) < MaxCaptchaTokens
          /\ Cardinality(OpenTokens) < MaxOpenTokens
          /\ GenerateCaptcha(a, b)
    \/ \E p \in Procs : nextId <= MaxCaptchaComments /\ CreateArrives(p, {Benign}, DOMAIN tokenLog)
    \/ \E p \in Procs : CreateSteps(p)

SpecCaptchaConc == Init /\ [][NextCaptchaConc]_vars

\* Like toggles on the flat comments, one request at a time.
NextToggle ==
    \/ \E ip \in IPs :
          /\ AllIdle /\ Cardinality(BIds) < MaxFlatComments
          /\ BCreateCheck(SeqProc, ip)
    \/ \E c \in BIds : AllIdle /\ BDestroyGet(SeqProc, c)
    \/ \E c \in BIds, ip \in IPs : AllIdle /\ ToggleGet(SeqProc, c, ip)
    \/ \E p \in Procs : FlatSteps(p)
    \/ \E p \in Procs : BDestroySave(p)

SpecToggle == Init /\ [][NextToggle]_vars

\* Like toggles that overlap in time.
NextToggleConc ==
    \/ \E ip \in IPs :
          /\ AllIdle /\ Cardinality(BIds) < MaxFlatComments
          /\ BCreateCheck(SeqProc, ip)
    \/ \E c \in BIds : AllIdle /\ BDestroyGet(SeqProc, c)
    \/ \E p \in Procs, c \in BIds, ip \in IPs : ToggleGet(p, c, ip)
    \/ \E p \in Procs : FlatSteps(p)
    \/ \E p \in Procs : BDestroySave(p)

SpecToggleConc == Init /\ [][NextToggleConc]_vars

\* Like requests and like toggles of one IP that overlap in time; a run serves
\* one of the two comment applications, the one whose first request arrives
\* first.
NextUnique ==
    \/ \E a \in OneOperand, b \in OneOperand :
          BIds = {} /\ OpenTokens = {} /\ GenerateCaptcha(a, b)
    \/ AllIdle /\ nextId <= MaxUniqueComments /\ CreateArrives(SeqProc, {Benign}, OpenTokens)
    \/ \E p \in Procs : CreateSteps(p)
    \/ \E p \in Procs, c \in 1..(nextId - 1), ip \in SameIP : LikeCheck(p, c, ip)
    \/ \E p \in Procs : LikeSteps(p)
    \/ \E ip \in SameIP :
          /\ AllIdle /\ DOMAIN tokenLog = {}
          /\ Cardinality(BIds) < MaxUniqueComments
          /\ BCreateCheck(SeqProc, ip)
    \/ \E p \in Procs, c \in BIds, ip \in SameIP : ToggleGet(p, c, ip)
    \/ \E p \in Procs : FlatSteps(p)

SpecUnique == Init /\ [][NextUnique]_vars

\* Arrival of a CreateComment mutation, with or without a parent.
MutateArrives(p, texts, toks) ==
    \E parent \in {0} \cup Ids, t \in toks, sol \in Solutions, text \in texts :
         CreateValidate(p, "graphql", parent, t, sol, text)

\* Replies on every creation path, moderation and deletion, one request at a
\* time.
NextParent ==
    \/ NextThread
    \/ AllIdle /\ nextId <= MaxThread /\ MutateArrives(SeqProc, Texts, OpenTokens)

SpecParent == Init /\ [][NextParent]_vars

\* Thread requests between replies and moderation, over time, one request at
\* a time.
NextThreadRead ==
    \/ \E a \in OneOperand, b \in OneOperand : OpenTokens = {} /\ GenerateCaptcha(a, b)
    \/ AllIdle /\ nextId <= MaxThread /\ CreateArrives(SeqProc, {Benign}, OpenTokens)
    \/ \E p \in Procs : CreateSteps(p)
    \/ \E c \in 1..(nextId - 1) : AllIdle /\ HideGet(SeqProc, c, 1)
    \/ \E p \in Procs : HideSave(p)
    \/ \E d \in ShortSteps : Tick(d, MaxTime)
    \/ \E c \in 1..(nextId - 1) : ThreadGet(c)

SpecThreadRead == Init /\ [][NextThreadRead]_vars

\* Arrival of a top-level comment on the generic create endpoint.
RootArrives(p, texts) ==
    \E t \in OpenTokens, sol \in Solutions, text \in texts :
         CreateValidate(p, "create", 0, t, sol, text)

\* The spam sweep over top-level comments, over hours.
NextSweep ==
    \/ \E a \in OneOperand, b \in OneOperand : OpenTokens = {} /\ GenerateCaptcha(a, b)
    \/ AllIdle /\ nextId <= MaxSweepComments /\ RootArrives(SeqProc, SweepTexts)
    \/ \E p \in Procs : CreateInsert(p)
    \/ \E p \in Procs : CreateMarkUsed(p)
    \/ \E d \in SweepSteps : Tick(d, MaxLongTime)
    \/ DetectAndModerateSpam
    \/ DetectAndModerateSpamFails

SpecSweep == Init /\ [][NextSweep]_vars

\* The spam sweep over comments of "viagra", "http" and uppercase letters.
NextShout ==
    \/ \E a \in OneOperand, b \in OneOperand : OpenTokens = {} /\ GenerateCaptcha(a, b)
    \/ AllIdle /\ nextId <= MaxShoutComments /\ RootArrives(SeqProc, ShoutTexts)
    \/ \E p \in Procs : CreateInsert(p)
    \/ \E p \in Procs : CreateMarkUsed(p)
    \/ \E d \in SweepSteps : Tick(d, MaxLongTime)
    \/ DetectAndModerateSpam

SpecShout == Init /\ [][NextShout]_vars

\* Comments with replies and likes under soft deletion and moderation, in one
\* of the two applications per run.
NextSoftDelete ==
    \/ \E a \in OneOperand, b \in OneOperand :
          BIds = {} /\ OpenTokens = {} /\ GenerateCaptcha(a, b)
    \/ AllIdle /\ nextId <= MaxSoftComments /\ CreateArrives(SeqProc, {Spammy}, OpenTokens)
    \/ \E p \in Procs : CreateSteps(p)
    \/ \E c \in 1..(nextId - 1), ip \in SameIP : AllIdle /\ LikeCheck(SeqProc, c, ip)
    \/ \E p \in Procs : LikeSteps(p)
    \/ \E c \in 1..(nextId - 1) : AllIdle /\ HideGet(SeqProc, c, NULL)
    \/ \E p \in Procs : HideSave(p)
    \/ \E d \in SoftSteps : Tick(d, MaxLongTime)
    \/ Ids # {} /\ DetectAndModerateSpam
    \/ DetectAndModerateSpamFails
    \/ \E ip \in SameIP :
          /\ AllIdle /\ DOMAIN tokenLog = {}
          /\ Cardinality(BIds) < MaxSoftComments
          /\ BCreateCheck(SeqProc, ip)
    \/ \E c \in BIds, ip \in SameIP : AllIdle /\ ToggleGet(SeqProc, c, ip)
    \/ \E p \in Procs : FlatSteps(p)
    \/ \E c \in BIds : AllIdle /\ BDestroyGet(SeqProc, c)
    \/ \E p \in Procs : BDestroySave(p)

SpecSoftDelete == Init /\ [][NextSoftDelete]_vars

\* Creation of comments and replies in which a write may fail, one request at
\* a time.
NextAtomic ==
    \/ \E a \in OneOperand, b \in OneOperand : OpenTokens = {} /\ GenerateCaptcha(a, b)
    \/ AllIdle /\ nextId <= MaxThread /\ CreateArrives(SeqProc, {Benign}, OpenTokens)
    \/ \E p \in Procs : CreateSteps(p)
    \/ \E p \in Procs : CreateFails(p)

SpecAtomic == Init /\ [][NextAtomic]_vars

\* Moderation of top-level comments by moderators and by the sweep, their
\* requests overlapping in time.
NextModerate ==
    \/ \E a \in OneOperand, b \in OneOperand : OpenTokens = {} /\ GenerateCaptcha(a, b)
    \/ AllIdle /\ nextId <= MaxModComments /\ RootArrives(SeqProc, Texts)
    \/ \E p \in Procs : CreateInsert(p)
    \/ \E p \in Procs : CreateMarkUsed(p)
    \/ \E p \in Procs \ {SeqProc}, c \in 1..(nextId - 1) : HideGet(p, c, NULL)
    \/ \E p \in Procs : HideSave(p)
    \/ \E c \in Ids : ApproveInAdmin(c, 1)
    \/ SweepStart(SeqProc)
    \/ \E p \in Procs : SweepSave(p)
    \/ \E d \in SoftSteps : Tick(d, MaxLongTime)

SpecModerate == Init /\ [][NextModerate]_vars

\* Generation of CAPTCHA challenges from every pair of operands.
NextChallenge ==
    \E a \in Operands, b \in Operands :
       Cardinality(DOMAIN tokenLog) < MaxChallengeTokens /\ GenerateCaptcha(a, b)

SpecChallenge == Init /\ [][NextChallenge]_vars

\* Comments of apps/comments created within the rate-limit window ending now.
RecentComments == {c \in Ids : comments[c].created_at + RateWindow > now}

\* Comments of comments/ created from ip within the rate-limit window ending now.
BRecentComments(ip) ==
    {c \in BIds : bcomments[c].ip = ip /\ bcomments[c].created_at + RateWindow > now}

\* Top-level comment submissions of one IP, one request at a time; a run serves
\* one of the two comment applications, and time passes in the runs of the one
\* with a counter that expires.
NextRate ==
    \/ \E a \in OneOperand, b \in OneOperand :
          BIds = {} /\ cache = <<>> /\ OpenTokens = {} /\ GenerateCaptcha(a, b)
    \/ \E t \in OpenTokens, sol \in Solutions :
          AllIdle /\ CreateValidate(SeqProc, "create", 0, t, sol, Benign)
    \/ \E p \in Procs : CreateInsert(p)
    \/ \E p \in Procs : CreateMarkUsed(p)
    \/ \E ip \in SameIP :
          /\ AllIdle /\ DOMAIN tokenLog = {}
          /\ Cardinality(BIds) < MaxRateComments
          /\ BCreateCheck(SeqProc, ip)
    \/ \E p \in Procs : BCreateInsert(p)
    \/ \E p \in Procs : BCreateCache(p)
    \/ \E d \in LongSteps : DOMAIN tokenLog = {} /\ Tick(d, MaxLongTime)

SpecRate == Init /\ [][NextRate]_vars

\* Comment submissions of one IP to comments/ that overlap in time.
NextRateConc ==
    \/ \E p \in Procs, ip \in SameIP :
          Cardinality(BIds) < MaxRateComments /\ BCreateCheck(p, ip)
    \/ \E p \in Procs : BCreateInsert(p)
    \/ \E p \in Procs : BCreateCache(p)
    \/ \E d \in LongSteps : Tick(d, MaxLongTime)

SpecRateConc == Init /\ [][NextRateConc]_vars

\* ---------------------------------------------------------------- claims
\* C1: whenever no request is in flight, every comment's replies_count equals
\* the number of its replies whose is_active is true.
C1_RepliesCountIsActiveReplies ==
    AllIdle =>
      \A c \in Ids :
        comments[c].replies_count =
          Cardinality({d \in Ids : comments[d].parent = c /\ comments[d].is_active})

\* C2: after any sequence of like requests and like deletions run one at a
\* time, every comment's likes_count equals the number of like rows stored for
\* it.
C2_LikesCountIsLikeRows ==
    AllIdle =>
      \A c \in Ids :
        comments[c].likes_count = Cardinality({l \in likes : l.comment = c})

C2_Witness ==
    /\ AllIdle
    /\ last.op = "like" /\ last.had /\ ~last.ok
    /\ \E c \in Ids : comments[c].likes_count = 2

\* C3: once two overlapping like requests from different IPs for one comment
\* have both completed, the comment's likes_count equals the number of like rows
\* stored for it.
C3_NoLostLike ==
    AllIdle =>
      \A c \in Ids :
        (\E l1, l2 \in likes : l1.comment = c /\ l2.comment = c /\ l1.ip # l2.ip) =>
          comments[c].likes_count = Cardinality({l \in likes : l.comment = c})

\* C4: every comment's depth is at most 3; a reply whose parent has depth 3 is
\* rejected, creates no comment and leaves the parent's replies_count as it was.
C4_DepthBounded ==
    /\ \A c \in Ids : get_depth(comments, c) <= 3
    /\ \A c \in Ids : get_depth(comments, c) = 3 =>
          /\ {d \in Ids : comments[d].parent = c} = {}
          /\ comments[c].replies_count = 0
    /\ (last.op = "create" /\ last.depth = 3) =>
          /\ ~last.ok
          /\ last.new = 0
          /\ last.c \in Ids => comments[last.c].replies_count = last.cnt

C4_Witness ==
    /\ last.op = "create" /\ last.depth = 3 /\ ~last.ok
    /\ last.tok \in Tokens /\ ~is_used(last.tok)
    /\ \E c \in Ids : get_depth(comments, c) = 3

\* C5: once a creation has succeeded with a token, a later creation request
\* presenting that token is rejected and creates no comment, also with the right
\* solution: no token ever serves two creations.
C5_TokenOneShot ==
    /\ (last.op = "create" /\ last.tokUsed) => (~last.ok /\ last.new = 0)
    /\ \A t \in DOMAIN tokenLog : tokenLog[t].created <= 1

C5_Witness ==
    /\ last.op = "create" /\ last.tokUsed /\ last.solRight /\ ~last.tokExpired
    /\ ~last.ok
    /\ tokenLog[last.tok].created = 1

\* C6: of two overlapping creation requests that present the same unused,
\* unexpired token with the right solution, at most one creates a comment, and
\* used_at of the token is written exactly once.
C6_TokenUsedOnce ==
    \A t \in DOMAIN tokenLog :
      /\ tokenLog[t].created <= 1
      /\ tokenLog[t].writes <= 1
      /\ (AllIdle /\ tokenLog[t].created = 1) => tokenLog[t].writes = 1

\* C7: a creation request that presents a token more than 10 minutes after the
\* token's created_at is rejected and creates no comment, whatever the solution
\* and whether or not the token was used before.
C7_ExpiredTokenRejected ==
    (last.op = "create" /\ last.tokExpired) => (~last.ok /\ last.new = 0)

C7_Witness ==
    /\ last.op = "create" /\ last.tokExpired /\ last.solRight /\ ~last.tokUsed
    /\ ~last.ok
    /\ now = tokenLog[last.tok].issued + 11

\* C8: two consecutive toggle_comment_like calls for one (comment, IP) pair
\* return the like to its state before the first call: the pair is liked after
\* both exactly when it was liked before, and likes_count is as before.
C8_DoubleToggle ==
    (last.op = "toggle" /\ last.ok /\ last.chain) =>
      /\ BLiked(blikes, last.c, last.ip) = last.had0
      /\ last.liked = last.had0
      /\ BLikesCount(blikes, last.c) = last.cnt0
      /\ last.count = last.cnt0

C8_Witness ==
    /\ last.op = "toggle" /\ last.ok /\ last.chain
    /\ last.had0 /\ ~last.had
    /\ BLikesCount(blikes, last.c) = 2

\* C9: once two overlapping toggle_comment_like calls for one (comment, IP) pair
\* have both completed, the like's active status is what it was before the two
\* calls, as after two toggles run one after the other.
C9_ConcurrentToggles ==
    (AllIdle /\ batch.n = 2 /\ batch.same) =>
      BLiked(blikes, batch.c, batch.ip) = batch.base

\* C10: a (comment, IP) pair never has more than one CommentLike row, in either
\* application and also when requests overlap; a like request of
\* apps/comments is accepted only for a pair without a row, and a rejected
\* one changes neither the like rows nor any likes_count.
C10_OneLikePerPair ==
    /\ [](/\ \A l1, l2 \in likes :
               (l1.comment = l2.comment /\ l1.ip = l2.ip) => l1 = l2
          /\ \A l1, l2 \in blikes :
               (l1.comment = l2.comment /\ l1.ip = l2.ip) => l1 = l2)
    /\ [][\A p \in Procs :
            /\ (req[p].pc = "idle" /\ req'[p].pc = "like_insert")
                 => ~HasLike(likes, req'[p].c, req'[p].ip)
            /\ (req[p].pc = "like_insert" /\ req'[p].pc = "like_sig_save")
                 => ~HasLike(likes, req[p].c, req[p].ip)
            /\ (\/ req[p].pc = "like_insert" /\ req'[p].pc = "idle"
                \/ req' = req /\ last'.op = "like" /\ ~last'.ok)
                 => UNCHANGED <<comments, likes>>]_vars

\* A like request met the row that a request overlapping it had inserted.
C10_Witness ==
    /\ last.op = "like" /\ ~last.ok /\ ~last.had
    /\ \E l \in likes : l.comment = last.c /\ l.ip = last.ip

\* C11: of the submissions of one IP within one rate-limit window no more than
\* the policy's 10 are stored, so that the 11th is rejected; and a submission
\* that arrives when the IP's counter has reached the limit is rejected and
\* stores nothing, until the counter expires.
C11_EleventhRejected ==
    /\ Cardinality(RecentComments) <= PolicyLimit
    /\ \A ip \in SameIP : Cardinality(BRecentComments(ip)) <= PolicyLimit
    /\ (last.op = "bcreate" /\ last.cnt >= RateLimit) => (~last.ok /\ last.new = 0)

\* C12: under overlapping creation requests of one IP, the comments created
\* from the IP within one window never exceed the limit, and once no request
\* is in flight the IP's counter in the cache equals their number.
C12_CounterIsCreated ==
    \A ip \in SameIP :
      /\ Cardinality(BRecentComments(ip)) <= RateLimit
      /\ AllIdle => CacheGet(ip) = Cardinality(BRecentComments(ip))

\* C13: no comment is created with a parent that is inactive at the time of
\* creation, on the reply endpoint, on the generic create endpoint and in the
\* CreateComment mutation.
C13_NoReplyToInactive ==
    /\ (last.op = "create" /\ last.ok) => last.parentActive
    /\ \A p \in Procs : req[p].parentActive

\* The active comments of the thread of c: its root and the root's descendants.
ActiveThread(c) ==
    {d \in Ids : comments[d].is_active /\
                 ThreadRoot(comments, d) = ThreadRoot(comments, c)}

\* C14: a thread request for an active comment returns the active comments of
\* its thread and no inactive one, in ascending created_at order, and the
\* request changes no stored comment, like or counter.
C14_ThreadIsActiveAscending ==
    /\ [](last.op = "thread" =>
            /\ \A i \in 1..Len(last.result) : comments[last.result[i]].is_active
            /\ OrderedByCreatedAt(comments, last.result)
            /\ (last.c \in Ids /\ comments[last.c].is_active) =>
                  /\ last.ok
                  /\ {last.result[i] : i \in 1..Len(last.result)} = ActiveThread(last.c))
    /\ [][last'.op = "thread" => UNCHANGED <<comments, likes, captchas>>]_vars

\* C15: a thread request for an active comment is answered, and with the
\* comments that a request for the root of its thread returns.
C15_ThreadFromRoot ==
    (last.op = "thread" /\ last.c \in Ids /\ comments[last.c].is_active) =>
      /\ last.ok
      /\ {last.result[i] : i \in 1..Len(last.result)}
            = get_comment_thread(comments, ThreadRoot(comments, last.c)).ids

\* The spam score of comment c is strictly greater than the threshold of 80.
HighScore(c) ==
    SpamScoreNum(comments[c].text) > SpamThreshold * SpamScoreDen(comments[c].text)

\* C16: a sweep in which one comment fails completes without raising, and has
\* evaluated every other comment of its scope: none of them is left in scope
\* with a score above the threshold.
C16_SweepSkipsFailures ==
    last.op = "sweep" =>
      /\ last.ok
      /\ \A c \in SweepScope \ {last.c} : ~HighScore(c)

\* C17: a run of detect_and_moderate_spam hides exactly the comments of its
\* scope whose score is strictly greater than 80, with is_moderated set,
\* moderated_at the time of the run and moderated_by left null, and leaves
\* every other comment as it was.
C17_SweepHidesAbove80 ==
    [][(last'.op = "sweep" /\ last'.ok) =>
         \A c \in Ids :
            IF c \in SweepScope /\ HighScore(c)
            THEN comments'[c] = [comments[c] EXCEPT !.is_active = FALSE,
                                                    !.is_moderated = TRUE,
                                                    !.moderated_at = now,
                                                    !.moderated_by = NULL]
            ELSE comments'[c] = comments[c]]_vars

\* A run has hidden a comment and left one with a score of exactly 80, and the
\* comments older than an hour, as they were.
C17_Witness ==
    /\ last.op = "sweep" /\ last.ok
    /\ \E c \in Ids : /\ ~comments[c].is_active /\ comments[c].moderated_at = now
                       /\ comments[c].moderated_by = NULL
    /\ \E c \in SweepScope : comments[c].text = Borderline
    /\ \E c \in Ids : /\ comments[c].text = Spammy /\ comments[c].is_active
                       /\ comments[c].created_at < now - SweepWindow

\* The text of comment c contains one keyword and three "http".
Shouted(c) == comments[c].text.kw = 1 /\ comments[c].text.http = 3

C19_SoftDeleteOnly ==
    [][/\ Ids \subseteq DOMAIN comments'
       /\ BIds \subseteq DOMAIN bcomments'
       /\ \A c \in Ids : comments'[c].parent = comments[c].parent
       /\ likes \subseteq likes'
       /\ {l.id : l \in blikes} \subseteq {l.id : l \in blikes'}
       /\ (req[SeqProc].pc = "hide_save" /\ last'.op = "hide") =>
             /\ last'.c \in DOMAIN comments'
             /\ ~comments'[last'.c].is_active
       /\ (req[SeqProc].pc = "b_destroy" /\ last'.op = "destroy") =>
             /\ last'.c \in DOMAIN bcomments'
             /\ ~bcomments'[last'.c].is_active
       /\ (AllIdle /\ last'.op = "sweep") =>
             \A c \in Ids : comments'[c] # comments[c] => ~comments'[c].is_active
      ]_vars

\* A comment with a reply and a like has been marked as spam: all three rows
\* are stored.
C19_Witness ==
    /\ last.op = "hide" /\ last.ok
    /\ last.c \in Ids /\ ~comments[last.c].is_active
    /\ \E d \in Ids : comments[d].parent = last.c
    /\ \E l \in likes : l.comment = last.c

\* C20: a creation that failed has left no comment row, no used mark on its
\* token and the parent's replies_count as it was; a creation that succeeded
\* has left the row, the used mark and the recomputed replies_count.
C20_CreateAtomic ==
    last.op = "create" =>
      IF last.ok
      THEN /\ last.new \in Ids
           /\ last.tok \in Tokens => is_used(last.tok)
           /\ last.c \in Ids =>
                 comments[last.c].replies_count = Cardinality(Replies(comments, last.c))
      ELSE /\ last.new \notin Ids
           /\ last.tok \in Tokens => (is_used(last.tok) => last.tokUsed)
           /\ last.c \in Ids => comments[last.c].replies_count = last.cnt

\* C21: a mark_comment_as_spam, and a save of the sweep, leaves its comment
\* with is_active false and is_moderated true and changes no other comment;
\* applied to a comment that is already hidden it changes the is_active and
\* is_moderated of no comment at all.
C21_HideIdempotent ==
    [][\A p \in Procs :
         /\ (req[p].pc = "hide_save" /\ req'[p].pc = "idle") =>
               /\ ~comments'[req[p].c].is_active
               /\ comments'[req[p].c].is_moderated
               /\ \A d \in Ids \ {req[p].c} : comments'[d] = comments[d]
               /\ ~comments[req[p].c].is_active =>
                     \A d \in Ids :
                        /\ comments'[d].is_active = comments[d].is_active
                        /\ comments'[d].is_moderated = comments[d].is_moderated
         /\ (req[p].pc = "sweep_save" /\ req'[p] # req[p]) =>
               /\ ~comments'[Head(req[p].todo).id].is_active
               /\ comments'[Head(req[p].todo).id].is_moderated
               /\ \A d \in Ids \ {Head(req[p].todo).id} : comments'[d] = comments[d]
      ]_vars

\* mark_comment_as_spam has been applied to a comment that was already hidden.
C21_Witness ==
    /\ last.op = "hide" /\ last.ok /\ ~last.had
    /\ ~comments[last.c].is_active /\ comments[last.c].is_moderated

\* C27: no save of the sweep changes a comment that is moderated or inactive;
\* an approved comment is never hidden by it, whatever its score.
C27_SweepSkipsModerated ==
    [][\A p \in Procs :
         (req[p].pc = "sweep_save" /\ req'[p] # req[p]) =>
            \A c \in Ids :
               (comments[c].is_moderated \/ ~comments[c].is_active) =>
                  comments'[c] = comments[c]]_vars

\* C22: a creation request for a root comment with an unused, unexpired token
\* and the matching solution succeeds; its comment is active, has depth 0,
\* replies_count 0 and likes_count 0, and used_at of the token is written by
\* that creation.
C22_RootCreated ==
    (/\ last.op = "create" /\ last.c = 0
     /\ last.solRight /\ ~last.tokUsed /\ ~last.tokExpired) =>
      /\ last.ok
      /\ last.new \in Ids
      /\ comments[last.new].is_active
      /\ get_depth(comments, last.new) = 0
      /\ comments[last.new].replies_count = 0
      /\ comments[last.new].likes_count = 0
      /\ last.tok \in Tokens
      /\ captchas[last.tok].used_at = now
      /\ tokenLog[last.tok].writes = 1

C22_Witness ==
    /\ last.op = "create" /\ last.ok /\ last.c = 0
    /\ last.new \in Ids /\ comments[last.new].is_active
    /\ is_used(last.tok)
    /\ now > 0

\* C26: a creation request with a wrong solution is rejected, creates no
\* comment and writes no used_at (a token is used only when a comment was
\* created with it); a request that follows it with the same token and the
\* right solution succeeds.
C26_WrongSolutionKeepsToken ==
    /\ (last.op = "create" /\ ~last.solRight) => (~last.ok /\ last.new = 0)
    /\ \A t \in Tokens : is_used(t) => tokenLog[t].created >= 1
    /\ (/\ last.op = "create" /\ last.chain /\ last.solRight
        /\ (last.c = 0 \/ last.depth < MaxDepth)) =>
          /\ last.ok
          /\ last.new \in Ids
          /\ is_used(last.tok)

\* A request with the right solution has succeeded right after one with a
\* wrong solution for the same token.
C26_Witness ==
    /\ last.op = "create" /\ last.chain /\ last.solRight
    /\ last.ok /\ last.new \in Ids /\ is_used(last.tok)

\* C25: the spam score of every stored comment's text is an integer between 0
\* and 100.
C25_ScoreIsInteger ==
    \A c \in Ids :
       /\ 0 <= SpamScoreNum(comments[c].text)
       /\ SpamScoreNum(comments[c].text) <= 100 * SpamScoreDen(comments[c].text)
       /\ SpamScoreNum(comments[c].text) % SpamScoreDen(comments[c].text) = 0

\* C29: the challenge of every generated token has at most 10 characters, and
\* so has its solution written as a string.
C29_ChallengeFits ==
    \A t \in Tokens :
       /\ Len(captchas[t].challenge) <= ChallengeMaxLength
       /\ Len(ToString(captchas[t].solution)) <= SolutionMaxLength

\* C28: a thread request for an active comment returns every active comment
\* of that comment's thread.
C28_ThreadComplete ==
    (last.op = "thread" /\ last.c \in Ids /\ comments[last.c].is_active) =>
      \A d \in ActiveThread(last.c) :
         \E i \in 1..Len(last.result) : last.result[i] = d


\* --------------------------------------------------- analytics processing
\* No counter of any day has reached n.
CountersBelow(n) ==
    \A day \in DOMAIN dailyStats :
       /\ dailyStats[day].comments_created < n
       /\ dailyStats[day].comments_liked < n
       /\ dailyStats[day].files_uploaded < n

\* Events are tracked and process_analytics_events runs on two workers, one
\* run after another or overlapping, across a change of day.
NextAnalytics ==
    \/ \E type \in EventTypes, ft \in FileTypes : TrackEvent(type, ft)
    \/ \E w \in Workers : CountersBelow(MaxCounted) /\ ProcessStart(w)
    \/ \E w \in Workers : ProcessGetStats(w)
    \/ \E w \in Workers : ProcessSaveStats(w)
    \/ \E w \in Workers : ProcessMark(w)
    \/ \E w \in Workers : ProcessFails(w)
    \/ \E d \in DaySteps : Tick(d, MinutesPerDay)

SpecAnalytics == Init /\ [][NextAnalytics]_vars

StatOf(day, field) ==
    IF day \in DOMAIN dailyStats THEN dailyStats[day][field] ELSE 0

EventsOf(day, type) ==
    {e \in EventIds : DayOf(events[e].created_at) = day /\ events[e].event_type = type}

CountedFields ==
    {<<"comment_created", "comments_created">>, <<"comment_liked", "comments_liked">>,
     <<"file_uploaded", "files_uploaded">>}

\* C30: whatever runs of process_analytics_events have taken place, a day's
\* counter never exceeds the number of that day's events of its type, and once
\* every event is processed and no run is under way it equals that number.
C30_CountedOnce ==
    \A day \in 0..DayOf(now), tf \in CountedFields :
       /\ StatOf(day, tf[2]) <= Cardinality(EventsOf(day, tf[1]))
       /\ (AllRunsIdle /\ \A e \in EventIds : events[e].processed)
            => StatOf(day, tf[2]) = Cardinality(EventsOf(day, tf[1]))

\* ---------------------------------------------------------- tag validation
NextXhtml == IsValidXhtml

SpecXhtml == InitXhtml /\ [][NextXhtml]_vars

RECURSIVE Nested(_, _, _)
\* Every opening tag of the text from the i-th tag on has a matching, properly
\* nested closing tag, self-closing tags ignored.
Nested(text, i, open) ==
    IF i > Len(text) THEN open = <<>>
    ELSE LET t == text[i] IN
         IF t.kind = "self" THEN Nested(text, i + 1, open)
         ELSE IF t.kind = "open" THEN Nested(text, i + 1, Append(open, t.name))
         ELSE /\ open # <<>>
              /\ open[Len(open)] = t.name
              /\ Nested(text, i + 1, SubSeq(open, 1, Len(open) - 1))

\* C24: Comment.is_valid_xhtml returns true only for a text whose tags are
\* balanced and properly nested.
C24_ValidOnlyIfNested ==
    xhtmlValid = <<TRUE>> => Nested(xhtml, 1, <<>>)

====
